---- MODULE Spec2Model ----
(***************************************************************************)
(* A model of sort_images (src/main.go): main parses its flags, checks the *)
(* source folder, walks it for images, reads each image's EXIF date,       *)
(* creates one folder per date under the destination and copies every      *)
(* image into its date folder.                                             *)
(*                                                                         *)
(* The file system is part of the state.  A path is a sequence of          *)
(* components and a component is a sequence of one-character strings, so   *)
(* that the walk order of filepath.Walk (lexical, per directory) and the   *)
(* zero padding of fmt.Sprintf("%04d/%02d/%02d") are computed, not         *)
(* assumed.  The file system holds no hard or symbolic links: two paths    *)
(* name the same file exactly when they are equal.  It changes only        *)
(* through the program (no concurrent writer), so a file that could be     *)
(* opened during the walk can be opened again later.                       *)
(***************************************************************************)
EXTENDS Integers, Sequences, FiniteSets, TLC

VARIABLES
    dirs,        \* the directories of the file system (a set of paths)
    data,        \* the regular files: path -> content
    locked,      \* regular files with mode 000: open fails for read and write
    roDirs,      \* directories in which no entry can be created
    seenDest,    \* flag.Visit saw -destination
    sourceFlag,  \* *sourceFlag
    destFlag,    \* *destFlag
    pc,          \* main's position
    exitCode,    \* the process's exit status, NotExited while it runs
    file,        \* main's handle on the source folder: "none" or "open"
    pending,     \* getImages: the entries filepath.Walk has still to visit
    found,       \* getImages: its local slice `images`
    images,      \* main: the slice getImages returned
    idx,         \* main: the index of the running loop
    dateErr,     \* the indexes for which getDate returned an error
    stderr,      \* what was written to os.Stderr, in order
    copies,      \* the calls of copyFile made in this run, in order
    run,         \* the number of the running invocation
    start,       \* the file system when this invocation started
    prev         \* exit status and stderr of the invocation before this one

vars == <<dirs, data, locked, roDirs, seenDest, sourceFlag, destFlag, pc,
          exitCode, file, pending, found, images, idx, dateErr, stderr,
          copies, run, start, prev>>

fsVars == <<dirs, data, locked, roDirs>>
flagVars == <<seenDest, sourceFlag, destFlag>>

----------------------------------------------------------------------------
(* Bounds of the model *)

MaxFiles == 3
MaxBody == 2
MaxRuns == 2

----------------------------------------------------------------------------
(* Paths *)

\* The characters that occur in the model's names, in byte order.
Alphabet == <<"0", "1", "2", "3", "4", "5", "6", "7", "8", "9",
              "a", "i", "n", "o", "s", "t", "u">>

Rank(c) == CHOOSE i \in 1..Len(Alphabet) : Alphabet[i] = c

\* s < t for two strings, compared byte by byte as sort.Strings does.
RECURSIVE StrLess(_, _)
StrLess(s, t) ==
    IF t = <<>> THEN FALSE
    ELSE IF s = <<>> THEN TRUE
    ELSE IF Head(s) = Head(t) THEN StrLess(Tail(s), Tail(t))
    ELSE Rank(Head(s)) < Rank(Head(t))

\* p is visited before q by filepath.Walk: directory entries are visited in
\* lexical order of their names, depth first.
RECURSIVE PathLess(_, _)
PathLess(p, q) ==
    IF q = <<>> THEN FALSE
    ELSE IF p = <<>> THEN TRUE
    ELSE IF Head(p) = Head(q) THEN PathLess(Tail(p), Tail(q))
    ELSE StrLess(Head(p), Head(q))

IsPrefix(p, q) == Len(p) <= Len(q) /\ SubSeq(q, 1, Len(p)) = p

Prefixes(p) == {SubSeq(p, 1, n) : n \in 0..Len(p)}

Dir(p) == SubSeq(p, 1, Len(p) - 1)

Base(p) == p[Len(p)]

----------------------------------------------------------------------------
(* File contents *)

\* The bytes of a file, as far as the program looks at them: the signature in
\* its first bytes (filetype.IsImage), its EXIF block (exif.Decode and
\* DateTime) and the rest.  date is <<year, month, day>>.
NoDateValue == <<0, 0, 0>>

ExifDate == <<2021, 6, 5>>

Empty == [sig |-> "none", exif |-> "none", date |-> NoDateValue, body |-> 0]

Dated(b) == [sig |-> "jpeg", exif |-> "date", date |-> ExifDate, body |-> b]

NoExif == [sig |-> "jpeg", exif |-> "none", date |-> NoDateValue, body |-> 1]

NoDateTag == [sig |-> "jpeg", exif |-> "nodate", date |-> NoDateValue, body |-> 1]

Text == [sig |-> "text", exif |-> "none", date |-> NoDateValue, body |-> 1]

InitContents == {Dated(b) : b \in 1..MaxBody} \cup {NoExif, NoDateTag, Text}

IsImage(head) == head.sig = "jpeg"

----------------------------------------------------------------------------
(* fmt.Sprintf("%04d/%02d/%02d/%s") and filepath.Join *)

DigitChar(n) == Alphabet[n + 1]

RECURSIVE Digits(_)
Digits(n) == IF n < 10 THEN <<DigitChar(n)>>
             ELSE Digits(n \div 10) \o <<DigitChar(n % 10)>>

\* Variant: %d, no fill.
PadNoFill(n, w) == Digits(n)

\* %0wd: the decimal digits of n, filled with zeros on the left to width w.
Pad(n, w) ==
    LET d == Digits(n)
    IN  IF Len(d) >= w THEN d ELSE [i \in 1..(w - Len(d)) |-> "0"] \o d

DateDir(dest, image) ==
    dest \o <<Pad(image.year, 4), Pad(image.month, 2), Pad(image.day, 2)>>

DestPath(dest, image) == DateDir(dest, image) \o <<image.name>>

----------------------------------------------------------------------------
(* The file system *)

SourceRoot == << <<"i", "n">> >>

OutName == <<"o", "u", "t">>

NameA == <<"a">>

\* The destination is beside the source folder, inside it, or at the place
\* of one of its files.
DestRoots == {<<OutName>>, SourceRoot \o <<OutName>>, SourceRoot \o <<NameA>>}

SubDir == <<"s">>

SourceCandidates == {SourceRoot \o <<NameA>>, SourceRoot \o <<SubDir, NameA>>}

\* Date folders that may exist under the destination before the first run.
OldDirs == { <<Pad(0, 4), Pad(0, 2), Pad(0, 2)>>,
             <<Pad(2021, 4), Pad(1, 2), Pad(31, 2)>> }

DestCandidates(dest) == {dest \o d \o <<NameA>> : d \in OldDirs}

FileEntries == {[type |-> "file", content |-> c] : c \in InitContents}
               \cup {[type |-> "locked", content |-> NoExif]}

DirEntry == [type |-> "dir", content |-> Empty]

\* os.Stat(p), by what the program tells apart.
Stat(p) ==
    IF p \in dirs THEN "dir"
    ELSE IF p \in DOMAIN data THEN "regular"
    ELSE IF \E q \in Prefixes(p) : q \in DOMAIN data THEN "enotdir"
    ELSE "enoent"

IsNotExist(st) == st = "enoent"

\* os.Open(p) for reading.
OpenFails(p) == Stat(p) \in {"enoent", "enotdir"} \/ p \in locked

\* The deepest directory on the way to p that exists.
DeepestDir(p) ==
    CHOOSE q \in Prefixes(p) \cap dirs :
        \A r \in Prefixes(p) \cap dirs : Len(r) <= Len(q)

\* os.MkdirAll(p, 0755): fails when something on the way is not a directory
\* or the first missing directory cannot be created; creates nothing then.
MkdirAllFails(p) ==
    \/ \E q \in Prefixes(p) : q \in DOMAIN data
    \/ (p \notin dirs /\ DeepestDir(p) \in roDirs)

\* The directories that may be read-only before the first run: the
\* destination (or, when it does not exist, the directory it will be created
\* in) and the year folders in it.
ReadOnlyCandidates(dest) ==
    {d \in dirs : /\ IsPrefix(DeepestDir(dest), d)
                  /\ Len(d) <= Len(dest) + 1
                  /\ (Len(d) > Len(dest) => IsPrefix(dest, d))}

Snapshot == [dirs |-> dirs, data |-> data]

RECURSIVE SortPaths(_)
SortPaths(S) ==
    IF S = {} THEN <<>>
    ELSE LET m == CHOOSE x \in S : \A y \in S \ {x} : PathLess(x, y)
         IN  <<m>> \o SortPaths(S \ {m})

\* The regular files filepath.Walk(root) visits, in its order.  (It visits
\* the directories too; the callback returns nil for them.)
WalkOrder(root) == SortPaths({p \in DOMAIN data : IsPrefix(root, p)})

----------------------------------------------------------------------------
(* The process *)

NotExited == -1

ExitOk == 0

NoRun == [exitCode |-> NotExited, stderr |-> <<>>, copies |-> <<>>]

InitProcess ==
    /\ pc = "flags"
    /\ exitCode = NotExited
    /\ file = "none"
    /\ pending = <<>>
    /\ found = <<>>
    /\ images = <<>>
    /\ idx = 1
    /\ dateErr = {}
    /\ stderr = <<>>
    /\ copies = <<>>

Init ==
    /\ \E dest \in DestRoots :
         /\ seenDest \in BOOLEAN
         /\ destFlag = IF seenDest THEN dest ELSE <<>>
         /\ \E S \in SUBSET (SourceCandidates \cup
                             IF seenDest THEN DestCandidates(dest) ELSE {}) :
              /\ Cardinality(S) <= MaxFiles
              /\ \A p, q \in S : IsPrefix(p, q) => p = q
              /\ \E e \in [S -> FileEntries \cup {DirEntry}] :
                   /\ \A p \in S : e[p] = DirEntry => p \in DestCandidates(dest)
                   /\ data = [p \in {q \in S : e[q] # DirEntry} |-> e[p].content]
                   /\ locked = {p \in S : e[p].type = "locked"}
                   /\ dirs = UNION {Prefixes(Dir(p)) : p \in S}
                             \cup {p \in S : e[p] = DirEntry}
                             \cup Prefixes(SourceRoot)
         /\ roDirs \in {{}} \cup {{d} : d \in IF seenDest
                                             THEN ReadOnlyCandidates(dest)
                                             ELSE {}}
    /\ sourceFlag \in {SourceRoot, SourceRoot \o <<NameA>>}
    /\ InitProcess
    /\ run = 1
    /\ start = Snapshot
    /\ prev = NoRun

----------------------------------------------------------------------------
(* main *)

\* Variant: no flag is required.
RequiredNone == {}

\* Line 27.
Required == {"destination"}

Seen == IF seenDest THEN {"destination"} ELSE {}

ExitUsage == 2

\* Variant: a failed open counts as a usage error.
ExitOpenFailedAsUsage == ExitUsage

ExitOpenFailed == 1

ExitNotDir == 2

ExitMkdirFailed == 1

Exit(code, msg) ==
    /\ pc' = "exit"
    /\ exitCode' = code
    /\ stderr' = Append(stderr, msg)

Msg(kind, i) == [kind |-> kind, idx |-> i]

\* Lines 27-40: every required flag must have been set.
CheckFlags ==
    /\ pc = "flags"
    /\ IF Required \ Seen # {}
       THEN Exit(ExitUsage, Msg("usage", 0))
       ELSE /\ pc' = "open"
            /\ UNCHANGED <<exitCode, stderr>>
    /\ UNCHANGED <<fsVars, flagVars, file, pending, found, images, idx,
                   dateErr, copies, run, start, prev>>

\* Lines 43-48: os.Open(*sourceFlag).
OpenSource ==
    /\ pc = "open"
    /\ IF OpenFails(sourceFlag)
       THEN /\ Exit(ExitOpenFailed, Msg("open", 0))
            /\ UNCHANGED file
       ELSE /\ pc' = "stat"
            /\ file' = "open"
            /\ UNCHANGED <<exitCode, stderr>>
    /\ UNCHANGED <<fsVars, flagVars, pending, found, images, idx, dateErr,
                   copies, run, start, prev>>

\* Lines 50-66: file.Stat() and fi.IsDir(), then the call of getImages.
\* (Stat of an open handle does not fail.)
StatSource ==
    /\ pc = "stat"
    /\ IF Stat(sourceFlag) # "dir"
       THEN /\ Exit(ExitNotDir, Msg("notdir", 0))
            /\ UNCHANGED pending
       ELSE /\ pc' = "walk"
            /\ pending' = WalkOrder(sourceFlag)
            /\ UNCHANGED <<exitCode, stderr>>
    /\ UNCHANGED <<fsVars, flagVars, file, found, images, idx, dateErr,
                   copies, run, start, prev>>

----------------------------------------------------------------------------
(* getImages *)

NewImage(path) ==
    [name |-> Base(path), path |-> path, year |-> 0, month |-> 0, day |-> 0]

\* Variant: the images found before a walk error are returned.
GetImagesKeepsPartial(list, failed) == list

\* Lines 153-156: what getImages returns for its local slice.
GetImagesResult(list, failed) == IF failed THEN <<>> ELSE list

\* Lines 127-152: the callback on the next file, and lines 66-69 when it
\* returns an error: Walk stops, getImages returns, main reports.
Visit ==
    /\ pc = "walk"
    /\ pending # <<>>
    /\ LET path == Head(pending)
       IN  IF OpenFails(path)
           THEN /\ images' = GetImagesResult(found, TRUE)
                /\ stderr' = Append(stderr, Msg("walk", 0))
                /\ pc' = "date"
                /\ UNCHANGED <<found, pending>>
           ELSE /\ found' = IF IsImage(data[path])
                            THEN Append(found, NewImage(path))
                            ELSE found
                /\ pending' = Tail(pending)
                /\ UNCHANGED <<images, stderr, pc>>
    /\ UNCHANGED <<fsVars, flagVars, exitCode, file, idx, dateErr, copies,
                   run, start, prev>>

\* Lines 153-156 and 66: Walk is through, getImages returns its slice.
WalkReturn ==
    /\ pc = "walk"
    /\ pending = <<>>
    /\ images' = GetImagesResult(found, FALSE)
    /\ pc' = "date"
    /\ UNCHANGED <<fsVars, flagVars, exitCode, file, pending, found, idx,
                   dateErr, stderr, copies, run, start, prev>>

----------------------------------------------------------------------------
(* getDate *)

\* Variant: the year is assigned before the date is known to be there.
GetDatePartial(image) ==
    IF OpenFails(image.path) \/ data[image.path].exif = "none"
    THEN [err |-> TRUE, image |-> image]
    ELSE IF data[image.path].exif = "nodate"
    THEN [err |-> TRUE, image |-> [image EXCEPT !.year = 1]]
    ELSE [err |-> FALSE,
          image |-> [image EXCEPT !.year = data[image.path].date[1],
                                  !.month = data[image.path].date[2],
                                  !.day = data[image.path].date[3]]]

\* Lines 102-123: the error getDate returns and the record it leaves.
GetDate(image) ==
    IF OpenFails(image.path) \/ data[image.path].exif # "date"
    THEN [err |-> TRUE, image |-> image]
    ELSE [err |-> FALSE,
          image |-> [image EXCEPT !.year = data[image.path].date[1],
                                  !.month = data[image.path].date[2],
                                  !.day = data[image.path].date[3]]]

\* Lines 72-77, one iteration.
DateStep ==
    /\ pc = "date"
    /\ idx <= Len(images)
    /\ LET r == GetDate(images[idx])
       IN  /\ images' = [images EXCEPT ![idx] = r.image]
           /\ dateErr' = IF r.err THEN dateErr \cup {idx} ELSE dateErr
    /\ idx' = idx + 1
    /\ UNCHANGED <<fsVars, flagVars, pc, exitCode, file, pending, found,
                   stderr, copies, run, start, prev>>

\* Line 72: the loop is through.
DateDone ==
    /\ pc = "date"
    /\ idx > Len(images)
    /\ pc' = "mkdir"
    /\ idx' = 1
    /\ UNCHANGED <<fsVars, flagVars, exitCode, file, pending, found, images,
                   dateErr, stderr, copies, run, start, prev>>

----------------------------------------------------------------------------
(* Create folder structure *)

\* Variant: a MkdirAll error is ignored.
MkdirStepNoExit ==
    /\ pc = "mkdir"
    /\ idx <= Len(images)
    /\ LET newPath == DateDir(destFlag, images[idx])
       IN  IF IsNotExist(Stat(newPath)) /\ ~MkdirAllFails(newPath)
           THEN dirs' = dirs \cup Prefixes(newPath)
           ELSE UNCHANGED dirs
    /\ idx' = idx + 1
    /\ UNCHANGED <<pc, exitCode, stderr>>
    /\ UNCHANGED <<data, locked, roDirs, flagVars, file, pending, found,
                   images, dateErr, copies, run, start, prev>>

\* Lines 80-89, one iteration.
MkdirStep ==
    /\ pc = "mkdir"
    /\ idx <= Len(images)
    /\ LET newPath == DateDir(destFlag, images[idx])
       IN  IF IsNotExist(Stat(newPath))
           THEN IF MkdirAllFails(newPath)
                THEN /\ Exit(ExitMkdirFailed, Msg("mkdir", idx))
                     /\ UNCHANGED <<dirs, idx>>
                ELSE /\ dirs' = dirs \cup Prefixes(newPath)
                     /\ idx' = idx + 1
                     /\ UNCHANGED <<pc, exitCode, stderr>>
           ELSE /\ idx' = idx + 1
                /\ UNCHANGED <<dirs, pc, exitCode, stderr>>
    /\ UNCHANGED <<data, locked, roDirs, flagVars, file, pending, found,
                   images, dateErr, copies, run, start, prev>>

\* Line 80: the loop is through.
MkdirDone ==
    /\ pc = "mkdir"
    /\ idx > Len(images)
    /\ pc' = "copy"
    /\ idx' = 1
    /\ UNCHANGED <<fsVars, flagVars, exitCode, file, pending, found, images,
                   dateErr, stderr, copies, run, start, prev>>

----------------------------------------------------------------------------
(* copyFile *)

\* os.SameFile(sfi, dfi): the file system holds no links.
SameFile(src, dst) == src = dst

\* os.Create(dst): O_RDWR|O_CREATE|O_TRUNC.
CreateFails(dst) ==
    \/ Dir(dst) \notin dirs
    \/ dst \in dirs
    \/ dst \in locked
    \/ (dst \notin DOMAIN data /\ Dir(dst) \in roDirs)

\* Lines 184-205: the error returned and the files left.  Create truncates
\* dst before io.Copy reads src.
CopyFileContents(src, dst) ==
    IF OpenFails(src) \/ CreateFails(dst)
    THEN [err |-> TRUE, data |-> data]
    ELSE LET truncated == (dst :> Empty) @@ data
         IN  [err |-> FALSE, data |-> (dst :> truncated[src]) @@ data]

\* Variant: no os.SameFile guard.
CopyFileNoSameCheck(src, dst) ==
    IF Stat(src) # "regular" \/ Stat(dst) \in {"enotdir", "dir"}
    THEN [err |-> TRUE, data |-> data]
    ELSE CopyFileContents(src, dst)

\* Lines 159-182: the error returned and the files left.
CopyFile(src, dst) ==
    IF Stat(src) # "regular"
    THEN [err |-> TRUE, data |-> data]
    ELSE IF Stat(dst) = "enoent"
    THEN CopyFileContents(src, dst)
    ELSE IF Stat(dst) # "regular"
    THEN [err |-> TRUE, data |-> data]
    ELSE IF SameFile(src, dst)
    THEN [err |-> FALSE, data |-> data]
    ELSE CopyFileContents(src, dst)

\* What a call of copyFile looked like: its arguments, the bytes of src when
\* it was called, and the error it returned.
Call(i, src, dst, r) ==
    [idx |-> i, src |-> src, dst |-> dst, bytes |-> data[src], err |-> r.err]

\* Variant: a copyFile error ends the process.
CopyStepFatal ==
    /\ pc = "copy"
    /\ idx <= Len(images)
    /\ LET newPath == DestPath(destFlag, images[idx])
           r == CopyFile(images[idx].path, newPath)
       IN  /\ data' = r.data
           /\ copies' = Append(copies, Call(idx, images[idx].path, newPath, r))
           /\ IF r.err
              THEN Exit(ExitMkdirFailed, Msg("copy", idx))
              ELSE UNCHANGED <<pc, exitCode, stderr>>
    /\ idx' = idx + 1
    /\ UNCHANGED <<dirs, locked, roDirs, flagVars, file, pending, found,
                   images, dateErr, run, start, prev>>

\* Lines 92-99, one iteration.
CopyStep ==
    /\ pc = "copy"
    /\ idx <= Len(images)
    /\ LET newPath == DestPath(destFlag, images[idx])
           r == CopyFile(images[idx].path, newPath)
       IN  /\ data' = r.data
           /\ copies' = Append(copies, Call(idx, images[idx].path, newPath, r))
           /\ stderr' = IF r.err THEN Append(stderr, Msg("copy", idx))
                        ELSE stderr
    /\ idx' = idx + 1
    /\ UNCHANGED <<dirs, locked, roDirs, flagVars, pc, exitCode, file,
                   pending, found, images, dateErr, run, start, prev>>

\* Lines 92 and 100: the loop is through and main returns; the deferred
\* file.Close() runs.
CopyDone ==
    /\ pc = "copy"
    /\ idx > Len(images)
    /\ pc' = "exit"
    /\ exitCode' = ExitOk
    /\ file' = "none"
    /\ UNCHANGED <<fsVars, flagVars, pending, found, images, idx, dateErr,
                   stderr, copies, run, start, prev>>

----------------------------------------------------------------------------
(* After a run that ended normally the tool is run again, with the same    *)
(* arguments, on what that run left.                                       *)

Rerun ==
    /\ pc = "exit"
    /\ exitCode = ExitOk
    /\ run < MaxRuns
    /\ run' = run + 1
    /\ start' = Snapshot
    /\ prev' = [exitCode |-> exitCode, stderr |-> stderr, copies |-> copies]
    /\ pc' = "flags"
    /\ exitCode' = NotExited
    /\ file' = "none"
    /\ pending' = <<>>
    /\ found' = <<>>
    /\ images' = <<>>
    /\ idx' = 1
    /\ dateErr' = {}
    /\ stderr' = <<>>
    /\ copies' = <<>>
    /\ UNCHANGED <<fsVars, flagVars>>

Next ==
    \/ CheckFlags
    \/ OpenSource
    \/ StatSource
    \/ Visit
    \/ WalkReturn
    \/ DateStep
    \/ DateDone
    \/ MkdirStep
    \/ MkdirDone
    \/ CopyStep
    \/ CopyDone
    \/ Rerun



Spec == Init /\ [][Next]_vars

----------------------------------------------------------------------------
(* Vocabulary of the properties *)

Reported(kind) == \E i \in 1..Len(stderr) : stderr[i].kind = kind

ReportedFor(kind) == {stderr[i].idx : i \in {k \in 1..Len(stderr) : stderr[k].kind = kind}}

Finished == pc = "exit"

FinishedNormally == pc = "exit" /\ exitCode = 0

Untouched == dirs = start.dirs /\ data = start.data

\* The number a string of decimal digits denotes.
RECURSIVE Value(_)
Value(s) == IF s = <<>> THEN 0
            ELSE 10 * Value(SubSeq(s, 1, Len(s) - 1)) + (Rank(s[Len(s)]) - 1)

\* p is <destination>/YYYY/MM/DD/<name> for the date y-m-d.
IsDatePath(p, y, m, d, name) ==
    LET k == Len(destFlag)
    IN  /\ Len(p) = k + 4
        /\ SubSeq(p, 1, k) = destFlag
        /\ Len(p[k + 1]) = 4 /\ Value(p[k + 1]) = y
        /\ Len(p[k + 2]) = 2 /\ Value(p[k + 2]) = m
        /\ Len(p[k + 3]) = 2 /\ Value(p[k + 3]) = d
        /\ p[k + 4] = name

\* The i-th image's date was extracted by getDate.
HasDate(i) == i \in 1..Len(images) /\ i \notin dateErr

\* No call of copyFile after the k-th one had the same destination.
LastTo(k) == \A j \in (k + 1)..Len(copies) : copies[j].dst # copies[k].dst

----------------------------------------------------------------------------
(* C1 *)

\* C1, as stated: after a run that completes normally, every image whose
\* date was extracted has a file <destination>/YYYY/MM/DD/<name> with the
\* bytes of its source file.
C1_Original ==
    FinishedNormally =>
        \A i \in 1..Len(images) :
            HasDate(i) =>
                \E p \in DOMAIN data :
                    /\ IsDatePath(p, images[i].year, images[i].month,
                                  images[i].day, Base(images[i].path))
                    /\ data[p] = data[images[i].path]

\* C1, amended: after a run that completes normally, every image whose date
\* was extracted, whose copyFile call returned no error and after which no
\* later image was copied to the same destination path, has a file
\* <destination>/YYYY/MM/DD/<name> (4-digit year, 2-digit month and day,
\* zero-padded) holding the bytes its source file held when it was copied.
C1_CopiedToDateFolder ==
    FinishedNormally =>
        /\ Len(copies) = Len(images)
        /\ \A i \in 1..Len(images) :
              (HasDate(i) /\ ~copies[i].err /\ LastTo(i)) =>
                  \E p \in DOMAIN data :
                      /\ IsDatePath(p, images[i].year, images[i].month,
                                    images[i].day, Base(images[i].path))
                      /\ copies[i].src = images[i].path
                      /\ data[p] = copies[i].bytes

\* A dated image was copied from the source folder into a date folder whose
\* month and day need a leading zero.
C1_Witness ==
    /\ FinishedNormally
    /\ \E i \in 1..Len(images) :
          /\ HasDate(i) /\ ~copies[i].err /\ LastTo(i)
          /\ images[i].month < 10 /\ images[i].day < 10 /\ images[i].year > 0
          /\ copies[i].dst # copies[i].src
          /\ copies[i].dst \notin DOMAIN start.data
          /\ data[copies[i].dst] = copies[i].bytes

----------------------------------------------------------------------------
(* C2 *)

\* C2: without -destination the process exits with status 2 before the
\* source is opened, before enumeration, and with the file system untouched.
C2_MissingDestinationExits2 ==
    ~seenDest =>
        /\ pc \in {"flags", "exit"}
        /\ (pc = "exit" => exitCode = 2)
        /\ file = "none"
        /\ pending = <<>> /\ found = <<>> /\ images = <<>>
        /\ copies = <<>>
        /\ Untouched

\* The run without -destination has exited, on a source folder with files.
C2_Witness ==
    /\ ~seenDest
    /\ Finished
    /\ Stat(sourceFlag) = "dir"
    /\ \E p \in DOMAIN data : IsPrefix(sourceFlag, p) /\ IsImage(data[p])

----------------------------------------------------------------------------
(* C3 *)

\* C3, as stated: a -source that is missing or is not a directory ends the
\* process with exit status 2.
C3_Original ==
    (seenDest /\ Stat(sourceFlag) # "dir" /\ Finished) => exitCode = 2

\* C3, amended: a -source that cannot be opened (it is missing, or cannot be
\* read) ends the process with exit status 1, and a -source that opens but
\* is not a directory ends it with exit status 2; either way before
\* enumeration, before any directory is created and before any file is
\* copied.
C3_BadSourceExits ==
    (seenDest /\ Stat(sourceFlag) # "dir") =>
        /\ pc \in {"flags", "open", "stat", "exit"}
        /\ (pc = "exit" =>
               exitCode = IF Stat(sourceFlag) = "enoent" \/ sourceFlag \in locked
                          THEN 1 ELSE 2)
        /\ pending = <<>> /\ found = <<>> /\ images = <<>>
        /\ copies = <<>>
        /\ Untouched

\* The run has exited on a -source that does not exist.
C3_Witness ==
    /\ seenDest
    /\ Stat(sourceFlag) = "enoent"
    /\ Finished
    /\ exitCode = 1
    /\ stderr # <<>>

----------------------------------------------------------------------------
(* C4 *)

\* C4: a call of copyFile whose source and destination are the same regular
\* file returns no error and leaves every file as it was.
C4_SelfCopyIsNoOp ==
    [][ ( /\ pc = "copy"
          /\ idx <= Len(images)
          /\ images[idx].path \in DOMAIN data
          /\ images[idx].path \notin dirs
          /\ IsDatePath(images[idx].path, images[idx].year, images[idx].month,
                        images[idx].day, Base(images[idx].path)) )
        => ( /\ data' = data
             /\ dirs' = dirs
             /\ stderr' = stderr
             /\ Len(copies') = Len(copies) + 1
             /\ copies'[Len(copies')].src = copies'[Len(copies')].dst
             /\ ~copies'[Len(copies')].err ) ]_vars

\* copyFile was just called on an image that already lies where it belongs,
\* and the image still has its bytes.
C4_Witness ==
    /\ copies # <<>>
    /\ LET c == copies[Len(copies)]
       IN  /\ c.src = c.dst
           /\ ~c.err
           /\ c.bytes # Empty
           /\ data[c.dst] = c.bytes

----------------------------------------------------------------------------
(* C5 *)

\* C5, as stated: when a first run ended normally without reporting an
\* error, a second run with the same arguments reports no copy error, ends
\* normally and leaves the tree the first run left.
C5_Idempotent ==
    (run = 2 /\ Finished /\ prev.exitCode = 0 /\ prev.stderr = <<>>) =>
        /\ ~Reported("copy")
        /\ exitCode = 0
        /\ Untouched

\* The same, for the runs in which no file under the source folder is a
\* destination of another image.
IdempotentWhenApart ==
    (run >= 2 /\ Finished /\ prev.exitCode = 0 /\ prev.stderr = <<>>
     /\ ~IsPrefix(sourceFlag, destFlag)) =>
        /\ ~Reported("copy")
        /\ exitCode = 0
        /\ Untouched

----------------------------------------------------------------------------
(* C6 *)

ZeroDir == << <<"0", "0", "0", "0">>, <<"0", "0">>, <<"0", "0">> >>

\* The images the date loop has been through.
DateTried == IF pc = "date" THEN 1..(idx - 1)
             ELSE IF pc \in {"mkdir", "copy", "exit"} THEN 1..Len(images)
             ELSE {}

----------------------------------------------------------------------------
(* C7 *)

\* The paths of a sequence of image records.
Paths(list) == [i \in 1..Len(list) |-> list[i].path]

\* C7, as stated: after a traversal error the run goes on with the images
\* enumerated before the error, and each of them is dated and copied.
C7_Original ==
    (Reported("walk") /\ FinishedNormally) =>
        /\ Paths(images) = Paths(found)
        /\ \A i \in 1..Len(found) :
              \E k \in 1..Len(copies) : copies[k].src = found[i].path

\* C7, amended: a traversal error aborts the enumeration and is reported,
\* and the process does not exit; but getImages then returns no image at
\* all (the images enumerated before the error are dropped), so the date
\* and copy phases run over an empty sequence: no directory is created, no
\* file is copied, and the run ends with exit status 0.
C7_WalkErrorDropsAll ==
    Reported("walk") =>
        /\ stderr = <<Msg("walk", 0)>>
        /\ pending # <<>>
        /\ pc \in {"date", "mkdir", "copy", "exit"}
        /\ images = <<>>
        /\ dateErr = {}
        /\ copies = <<>>
        /\ Untouched
        /\ (pc = "exit" => exitCode = 0)

\* The run ended after a traversal error that came after an image had been
\* enumerated.
C7_Witness ==
    /\ Reported("walk")
    /\ Finished
    /\ found # <<>>
    /\ Head(pending) \in locked

----------------------------------------------------------------------------
(* C8 *)

\* C8: no call of copyFile is made before the directory loop has been
\* through every image; no directory is created once a copy was attempted;
\* and when MkdirAll fails the process exits at once with status 1, that
\* directory and the later ones are not created, and no file was copied.
C8_MkdirFirstAndFatal ==
    [][ /\ (copies' # <<>> =>
               \A i \in 1..Len(images') :
                   LET d == DateDir(destFlag', images'[i])
                   IN  d \in dirs' \/ \E q \in Prefixes(d) : q \in DOMAIN data')
        /\ (dirs' # dirs => copies = <<>> /\ copies' = <<>> /\ data' = data)
        /\ ( ( /\ pc = "mkdir"
               /\ idx <= Len(images)
               /\ DateDir(destFlag, images[idx]) \notin dirs
               /\ \A q \in Prefixes(DateDir(destFlag, images[idx])) :
                      q \notin DOMAIN data
               /\ DeepestDir(DateDir(destFlag, images[idx])) \in roDirs )
             => ( /\ pc' = "exit"
                  /\ exitCode' = 1
                  /\ dirs' = dirs
                  /\ data' = start.data
                  /\ copies' = <<>>
                  /\ stderr' = Append(stderr, Msg("mkdir", idx)) ) )
        /\ (Reported("mkdir")' =>
               pc' = "exit" /\ exitCode' = 1 /\ copies' = <<>> /\ data' = start.data)
      ]_vars

\* The run exited because a date folder could not be created, after it had
\* created the folder of an earlier image.
C8_Witness ==
    /\ Reported("mkdir")
    /\ Finished
    /\ exitCode = 1
    /\ dirs # start.dirs
    /\ idx < Len(images)
    /\ DateDir(destFlag, images[idx]) \notin dirs

----------------------------------------------------------------------------
(* C9 *)

\* C9: when copyFile fails for an image the failure is reported, copyFile is
\* still called exactly once for every image, in the order of the
\* enumeration, and the run ends with exit status 0.
C9_CopyFailureNotFatal ==
    (\E k \in 1..Len(copies) : copies[k].err) =>
        /\ pc \in {"copy", "exit"}
        /\ Len(copies) = (IF pc = "exit" THEN Len(images) ELSE idx - 1)
        /\ \A k \in 1..Len(copies) :
              copies[k].idx = k /\ copies[k].src = images[k].path
        /\ ReportedFor("copy") = {k \in 1..Len(copies) : copies[k].err}
        /\ Len(stderr) = Cardinality(ReportedFor("copy"))
        /\ (pc = "exit" => exitCode = 0)

\* The run ended after copyFile failed for one image and succeeded for a
\* later one.
C9_Witness ==
    /\ Finished
    /\ \E k \in 1..Len(copies) :
          /\ copies[k].err
          /\ \E j \in (k + 1)..Len(copies) :
                /\ ~copies[j].err
                /\ copies[j].dst # copies[j].src
                /\ data[copies[j].dst] = copies[j].bytes

----------------------------------------------------------------------------
(* C10 *)

\* C10: every file that was under the source folder when the run started is
\* still there with the same content.
C10_SourceKept ==
    \A p \in DOMAIN start.data :
        IsPrefix(sourceFlag, p) => p \in DOMAIN data /\ data[p] = start.data[p]

====
